---------------------------- MODULE Spec2Model ----------------------------
(***************************************************************************)
(* toosoon-prng: a seed-based pseudo-random value generator.               *)
(*                                                                         *)
(* A 32-bit word is modelled as a pair <<hi, lo>> of 16-bit halves (the    *)
(* model checker's integers are narrower than 2^32); every operator below  *)
(* computes the same bit pattern as the JavaScript operator it names.      *)
(* A draw in [0,1) is the word w that the algorithm divides by 2^32.       *)
(* Strings are sequences of UTF-16 code units.                             *)
(***************************************************************************)
EXTENDS Integers, Sequences, FiniteSets, TLC

VARIABLES
    engine,       \* which PRNG class the instance `prng` is of
    seed,         \* the stored seed: `seed` (legacy) or `_seed`
    algorithm,    \* the stored algorithm function, by name: `algorithm` or `_algorithm`
    controllers,  \* prng.controllers: the registered controllers, in order
    ctl,          \* the controller objects created so far
    groups,       \* the group controller objects created so far
    last,         \* the call just made and how it ended; Idle once the caller has taken it
    noted         \* the first random() call an observer saw, when it is watching

vars == <<engine, seed, algorithm, controllers, ctl, groups, last, noted>>

(***************************************************************************)
(* Bounds                                                                  *)
(***************************************************************************)
\* the longest seed string setSeed is given
MaxSeedLen == 1
\* how many controllers are constructed
MaxControllers == 2
\* the largest bound randomInt is given
MaxInt == 2
\* the longest weights list
MaxWeights == 3
\* the largest precision randomFloat is given
MaxPrecision == 2
\* the longest array randomItem is given, and the most keys of a map
MaxItems == 2
\* the longest string cyrb128 is given on its own
MaxHashLen == 3
\* how many group controllers are constructed
MaxGroups == 1
\* the largest index getValueAt is given
MaxIndex == 1

\* 2^16, the size of a half word
H == 256 * 256

(***************************************************************************)
(* 32-bit arithmetic                                                       *)
(***************************************************************************)
W(hi, lo) == <<hi, lo>>

\* F(v) with v worked out first, as a statement is before the one that reads
\* its result
Then(v, F(_)) == CHOOSE y \in {F(x) : x \in {v}} : TRUE

\* bit p (a power of two) of a ^ b, in place
XorBit(a, b, p) == (((a \div p) + (b \div p)) % 2) * p

\* four bits of a ^ b, from bit p up
Xor4(a, b, p) == XorBit(a, b, p) + XorBit(a, b, 2 * p) + XorBit(a, b, 4 * p) + XorBit(a, b, 8 * p)

\* a ^ b for 16-bit a and b
Xor16(a, b) == Xor4(a, b, 1) + Xor4(a, b, 16) + Xor4(a, b, 256) + Xor4(a, b, 4096)

\* bit p of a | b, in place
OrBit(a, b, p) == IF (a \div p) % 2 = 1 \/ (b \div p) % 2 = 1 THEN p ELSE 0

\* four bits of a | b, from bit p up
Or4(a, b, p) == OrBit(a, b, p) + OrBit(a, b, 2 * p) + OrBit(a, b, 4 * p) + OrBit(a, b, 8 * p)

\* a | b for 16-bit a and b
Or16(a, b) == Or4(a, b, 1) + Or4(a, b, 16) + Or4(a, b, 256) + Or4(a, b, 4096)

\* a ^ b
Xor(a, b) == W(Xor16(a[1], b[1]), Xor16(a[2], b[2]))

\* a | b
Or(a, b) == W(Or16(a[1], b[1]), Or16(a[2], b[2]))

\* (a + b) | 0, the low 32 bits of the sum
Add(a, b) ==
    LET lo == a[2] + b[2]
    IN  W((a[1] + b[1] + lo \div H) % H, lo % H)

\* (a - b) | 0, the low 32 bits of the difference
Sub(a, b) ==
    LET lo == a[2] - b[2] + H
    IN  W((a[1] - b[1] + H + lo \div H - 1) % H, lo % H)

RECURSIVE Pow2(_)
Pow2(n) == IF n = 0 THEN 1 ELSE 2 * Pow2(n - 1)

\* a >>> n, for 0 < n < 32
Shr(a, n) ==
    IF n >= 16 THEN W(0, a[1] \div Pow2(n - 16))
    ELSE W(a[1] \div Pow2(n), (a[2] \div Pow2(n)) + (a[1] % Pow2(n)) * Pow2(16 - n))

\* a << n, for 0 < n < 32
Shl(a, n) ==
    IF n >= 16 THEN W((a[2] % Pow2(32 - n)) * Pow2(n - 16), 0)
    ELSE W((a[1] % Pow2(16 - n)) * Pow2(n) + a[2] \div Pow2(16 - n),
           (a[2] % Pow2(16 - n)) * Pow2(n))

\* the full product of two 16-bit numbers, as a word
Mul16(x, y) ==
    LET p0 == (x % 256) * y
        p1 == (x \div 256) * y
        s  == p0 + (p1 % 256) * 256
    IN  W((s \div H + p1 \div 256) % H, s % H)

\* the low product ll of the halves with the two cross products added to its high half
MulSum(ll, hl, lh) == W((ll[1] + hl[2] + lh[2]) % H, ll[2])

\* Math.imul(a, b), the low 32 bits of the product
imul(a, b) == MulSum(Mul16(a[2], b[2]), Mul16(a[1], b[2]), Mul16(a[2], b[1]))

\* t ^ (t >>> n)
XorShr(t, n) == Xor(t, Shr(t, n))

\* a rotated left by n bits: (a << n) | (a >>> (32 - n))
Rotl(a, n) == Or(Shl(a, n), Shr(a, 32 - n))

(***************************************************************************)
(* Seed hashing                                                            *)
(***************************************************************************)
\* one round of the loop of cyrb128 for the code unit k; h4 reads the new h1
cyrb128Step(h, k) ==
    Then(Xor(h[2], imul(Xor(h[1], W(0, k)), W(9115, 38427))), LAMBDA h1 :
         <<h1,
           Xor(h[3], imul(Xor(h[2], W(0, k)), W(43790, 38793))),
           Xor(h[4], imul(Xor(h[3], W(0, k)), W(14515, 19173))),
           Xor(h1, imul(Xor(h[4], W(0, k)), W(41443, 35731)))>>)

RECURSIVE cyrb128Loop(_, _, _)
cyrb128Loop(h, str, i) ==
    IF i > Len(str) THEN h
    ELSE Then(cyrb128Step(h, str[i]), LAMBDA g : cyrb128Loop(g, str, i + 1))

\* a 32-bit pattern read as the signed integer that ^ leaves: the top bit
\* counts for -2^31
Signed(w) == IF w[1] >= 32768 THEN W(w[1] - H, w[2]) ELSE w

\* the returned words without their >>> 0, signed as ^ leaves them
cyrb128OutSigned(h1, h2, h3, h4) ==
    <<Signed(Xor(Xor(Xor(h1, h2), h3), h4)), Signed(Xor(h2, h1)),
      Signed(Xor(h3, h1)), Signed(Xor(h4, h1))>>

\* the words cyrb128 returns from its final h1..h4, each >>> 0
cyrb128Out(h1, h2, h3, h4) ==
    <<Xor(Xor(Xor(h1, h2), h3), h4), Xor(h2, h1), Xor(h3, h1), Xor(h4, h1)>>

\* h1..h4 after the mixing that follows the loop; h3 and h4 read the new h1 and h2
cyrb128Final(h) ==
    Then(imul(Xor(h[3], Shr(h[1], 18)), W(9115, 38427)), LAMBDA h1 :
    Then(imul(Xor(h[4], Shr(h[2], 22)), W(43790, 38793)), LAMBDA h2 :
    Then(imul(Xor(h1, Shr(h[3], 17)), W(14515, 19173)), LAMBDA h3 :
    Then(imul(Xor(h2, Shr(h[4], 19)), W(41443, 35731)), LAMBDA h4 :
         <<h1, h2, h3, h4>>))))

\* the mixing and the return
cyrb128Mix(h) == Then(cyrb128Final(h), LAMBDA g : cyrb128Out(g[1], g[2], g[3], g[4]))

\* h1..h4 as the loop leaves them for the string str
cyrb128Accumulators(str) ==
    cyrb128Loop(<<W(27145, 58983), W(47975, 44677),
                  W(15470, 62322), W(42319, 62778)>>, str, 1)

\* the four 32-bit words hashed from a string
cyrb128(str) == Then(cyrb128Accumulators(str), cyrb128Mix)

(***************************************************************************)
(* Algorithms: each returns the word t of its result (t >>> 0) / 2^32      *)
(***************************************************************************)
\* the sums of sfc32 without their | 0: t = a + b; d = d + 1; t = t + d, which
\* runs past 32 bits
sfc32Unwrapped(a, b, c, d) ==
    W(a[1] + b[1] + d[1] + (a[2] + b[2] + d[2] + 1) \div H, (a[2] + b[2] + d[2] + 1) % H)

\* t = (a + b) | 0; d = (d + 1) | 0; t = (t + d) | 0
sfc32(a, b, c, d) == Add(Add(a, b), Add(d, W(0, 1)))

\* a = (a + 0x9e3779b9) | 0, then three xor-shifts around two multiplications
splitmix32(a) ==
    Then(Add(a, W(40503, 31161)), LAMBDA a1 :
    Then(imul(XorShr(a1, 16), W(8688, 43693)), LAMBDA t1 :
    Then(imul(XorShr(t1, 15), W(29530, 11671)), LAMBDA t2 :
         XorShr(t2, 15))))

\* t = (a += 0x6d2b79f5); t = Math.imul(t ^ (t >>> 15), t | 1);
\* t ^= t + Math.imul(t ^ (t >>> 7), t | 61); t ^ (t >>> 14)
mulberry32(a) ==
    Then(Add(a, W(27947, 31221)), LAMBDA a1 :
    Then(imul(XorShr(a1, 15), Or(a1, W(0, 1))), LAMBDA t1 :
    Then(Xor(t1, Add(t1, imul(XorShr(t1, 7), Or(t1, W(0, 61))))), LAMBDA t2 :
         XorShr(t2, 14))))

\* t = (a - rotl(b, 27)) | 0; a = b ^ rotl(c, 17); d = (a + t) | 0
jsf32(a, b, c, d) == Add(Xor(b, Rotl(c, 17)), Sub(a, Rotl(b, 27)))

\* the result taken from the second word: r = rotl(b * 5, 7) * 9
xoshiro128ssSecond(a, b, c, d) ==
    Then(imul(b, W(0, 5)), LAMBDA r : imul(Rotl(r, 7), W(0, 9)))

\* r = rotl(a * 5, 7) * 9
xoshiro128ss(a, b, c, d) ==
    Then(imul(a, W(0, 5)), LAMBDA r : imul(Rotl(r, 7), W(0, 9)))

(***************************************************************************)
(* JavaScript values: strings, numbers and undefined                       *)
(***************************************************************************)
\* a value is its type t and a sequence v: a string's code units, or the one
\* integer of a number or of a boolean (1 for true)
S(str) == [v |-> str, t |-> "string"]
N(n) == [v |-> <<n>>, t |-> "number"]
Undefined == [v |-> <<>>, t |-> "undefined"]
B(b) == [v |-> <<IF b THEN 1 ELSE 0>>, t |-> "boolean"]

\* x === y
StrictEq(x, y) == x.t = y.t /\ x.v = y.v

\* the decimal digits of a natural number, as code units
RECURSIVE Digits(_)
Digits(n) == IF n < 10 THEN <<48 + n>> ELSE Digits(n \div 10) \o <<48 + (n % 10)>>

\* "undefined"
UndefinedChars == <<117, 110, 100, 101, 102, 105, 110, 101, 100>>

\* `${x}`, and what the operator + makes of x beside a string
TemplateString(x) ==
    CASE x.t = "number" -> Digits(x.v[1])
      [] x.t = "undefined" -> UndefinedChars
      [] OTHER -> x.v

(***************************************************************************)
(* Inputs                                                                  *)
(***************************************************************************)
\* the code units seeds are made of: "1" and "2"
Chars == {49, 50}

RECURSIVE StringsUpTo(_)
StringsUpTo(n) ==
    IF n = 0 THEN {<<>>}
    ELSE StringsUpTo(n - 1) \cup
         {Append(str, c) : str \in {q \in StringsUpTo(n - 1) : Len(q) = n - 1}, c \in Chars}

\* the seed strings setSeed is given
SeedStrings == StringsUpTo(MaxSeedLen)

\* a numeric seed
Numbers == {1}

\* the arguments setSeed is given
SeedArgs == {S(str) : str \in SeedStrings} \cup {N(n) : n \in Numbers}

\* the sub-seeds the derived operations are given
SubSeedArgs == {S(<<>>), S(<<49>>), S(<<50>>)} \cup {N(n) : n \in Numbers}

\* the names of enum AlgorithmName
AlgorithmNames == {"jsf32", "mulberry32", "sfc32", "splitmix32", "xoshiro128**"}

\* the names setAlgorithm is given: those of the enum, and a string that is
\* none of them, which nothing at run time keeps out
AlgorithmArgs == AlgorithmNames \cup {"pcg32"}

\* the PRNG classes: src/src/prng.ts ("legacy"), the base class of toosoon-prng
\* ("base"), and its two subclasses in packages/controllers: the one that
\* overrides setSeed and setAlgorithm ("managed") and the one that also
\* overrides the seed and algorithm setters ("accessors")
Engines == {"legacy", "base", "managed", "accessors"}

\* the seeds of the group controllers: 'g'
GroupSeeds == {<<103>>}

\* the seeds a group gives the controllers it creates: `${seed}-${index}`
ChildSeeds == {gs \o <<45>> \o Digits(i) : gs \in GroupSeeds, i \in 0..MaxIndex}

\* every string random() hashes and hands on within the bounds; an engine that
\* reads its seed as undefined hashes "undefined" + k and then fails to call
\* its algorithm, so that hash is never seen
EffectiveSeeds ==
    {g \o k : g \in SeedStrings, k \in {TemplateString(x) : x \in SubSeedArgs} \cup ChildSeeds}

(***************************************************************************)
(* The engine: PRNG                                                        *)
(***************************************************************************)
\* the value of a function-typed field that holds no function
NoFunction == "undefined"

\* getAlgorithm / getAlgorithmByName: a switch over the names, with no default
getAlgorithmByName(name) == IF name \in AlgorithmNames THEN name ELSE NoFunction

\* algorithm(...hashes): the word of the draw
Apply(fn, h) ==
    CASE fn = "jsf32" -> jsf32(h[1], h[2], h[3], h[4])
      [] fn = "mulberry32" -> mulberry32(h[1])
      [] fn = "sfc32" -> sfc32(h[1], h[2], h[3], h[4])
      [] fn = "splitmix32" -> splitmix32(h[1])
      [] fn = "xoshiro128**" -> xoshiro128ss(h[1], h[2], h[3], h[4])

\* cyrb128 of every string within the bounds, each worked out once: <<str, hashes>>
Hashes == {<<str, cyrb128(str)>> : str \in EffectiveSeeds}

\* every algorithm over those hashes: <<str, fn, fn(...hashes)>>
Draws == {<<x[1], fn, Apply(fn, x[2])>> : x \in Hashes, fn \in AlgorithmNames}

\* fn(...cyrb128(str)), looked up
Draw(fn, str) == (CHOOSE d \in Draws : d[1] = str /\ d[2] = fn)[3]

\* how a call ends: with a value, or with the TypeError of calling undefined
Ok(v) == [threw |-> FALSE, val |-> v]
Throw == [threw |-> TRUE, val |-> "TypeError"]

\* this.seed: the accessors subclass redefines the property `seed` with a
\* setter alone, so reading it there finds no getter and yields undefined
seedOf(e, s) == IF e = "accessors" THEN Undefined ELSE S(s)

\* this.algorithm, likewise
algorithmOf(e, a) == IF e = "accessors" THEN NoFunction ELSE a

\* fn(...cyrb128(str)): calling what is no function throws
call(fn, str) == IF fn = NoFunction THEN Throw ELSE Ok(Draw(fn, str))

\* the word after w in an algorithm's stream
Advanced(w, n) == IF n.st = "noted" THEN Add(w, W(0, 1)) ELSE w

\* a generator that keeps its stream between calls: once a call has been
\* made, the next one draws the following word.  Determinism has to tell
\* random from this.
randomStreamed(e, s, a, k) ==
    IF algorithmOf(e, a) = NoFunction THEN Throw
    ELSE Ok(Advanced(Draw(a, TemplateString(seedOf(e, s)) \o TemplateString(k)), noted))

\* the word that follows w once the algorithm has been switched
Resumed(w, n) == IF n.st = "noted" /\ n.switched THEN Add(w, W(0, 1)) ELSE w

\* algorithms that carry a state of their own, which a switch to another
\* algorithm and back does not restore
randomResumed(e, s, a, k) ==
    IF algorithmOf(e, a) = NoFunction THEN Throw
    ELSE Ok(Resumed(Draw(a, TemplateString(seedOf(e, s)) \o TemplateString(k)), noted))

\* random(seed): this.algorithm over cyrb128(this.seed + `${seed}`)
random(e, s, a, k) ==
    call(algorithmOf(e, a), TemplateString(seedOf(e, s)) \o TemplateString(k))

\* a call fn(x) with one argument: the parameters b, c and d are undefined,
\* which the bit operations of every algorithm read as 0, and they read x
\* modulo 2^32
OneWord(x) == <<x, W(0, 0), W(0, 0), W(0, 0)>>

\* both draws made as random() makes its one, from all four words:
\* fn(...hashes) twice
GaussianDrawsSpread ==
    {<<x[1], fn, Apply(fn, x[2]), Apply(fn, x[2])>> : x \in Hashes, fn \in AlgorithmNames}

\* the two draws of randomGaussian over the hashes of every string within the
\* bounds: <<str, fn, fn(hashes[0] + hashes[1]), fn(hashes[2] + hashes[3])>>
GaussianDraws ==
    {<<x[1], fn, Apply(fn, OneWord(Add(x[2][1], x[2][2]))),
       Apply(fn, OneWord(Add(x[2][3], x[2][4])))>> : x \in Hashes, fn \in AlgorithmNames}

\* mean + Math.sqrt(-2.0 * Math.log(u)) * Math.cos(2.0 * Math.PI * v) * spread,
\* kept as the words of u and v and the two parameters it is a function of
gaussianOf(d, mean, spread) == Ok([v |-> d[4], mean |-> mean, spread |-> spread, u |-> d[3]])

\* the body of randomGaussian for the algorithm fn and the string str
gaussian(fn, str, mean, spread) ==
    IF fn = NoFunction THEN Throw
    ELSE gaussianOf(CHOOSE d \in GaussianDraws : d[1] = str /\ d[2] = fn, mean, spread)

\* randomGaussian
randomGaussian(e, s, a, k, mean, spread) ==
    gaussian(algorithmOf(e, a), TemplateString(seedOf(e, s)) \o TemplateString(k), mean, spread)

(***************************************************************************)
(* Arithmetic on a draw r = w / 2^32.  The products and sums below are     *)
(* exact in double precision for the small integers the model draws.       *)
(***************************************************************************)
\* floor(r * m) for an integer m >= 0
ScaleDown(w, m) == (w[1] * m + (w[2] * m) \div H) \div H

\* floor(r * m) for an integer m
ScaleFloor(w, m) ==
    IF m >= 0 THEN ScaleDown(w, m)
    ELSE IF imul(w, W(0, -m)) = W(0, 0) THEN -ScaleDown(w, -m)
    ELSE -(ScaleDown(w, -m) + 1)

\* ceil(r * m)
ScaleCeil(w, m) == -ScaleFloor(w, -m)

RECURSIVE Pow10(_)
Pow10(n) == IF n = 0 THEN 1 ELSE 10 * Pow10(n - 1)

\* the comparison the other way round, r > probability, which the bounds of
\* randomBoolean have to tell from r < probability
booleanOfAbove(r, p) == IF r.threw THEN r ELSE Ok(ScaleFloor(r.val, p[2]) >= p[1])

\* r < probability, the probability being p[1] / p[2]
booleanOf(r, p) == IF r.threw THEN r ELSE Ok(ScaleFloor(r.val, p[2]) < p[1])

\* randomBoolean: random(seed) < probability
randomBoolean(e, s, a, k, p) == booleanOf(random(e, s, a, k), p)

\* b ? 1 : -1
signOf(b) == IF b.threw THEN b ELSE Ok(IF b.val THEN 1 ELSE -1)

\* randomSign: randomBoolean(seed, probability) ? 1 : -1
randomSign(e, s, a, k, p) == signOf(randomBoolean(e, s, a, k, p))

\* a range one too wide, Math.floor(r * (max - min + 2) + min), which the
\* bounds of randomInt have to tell from the code's
intOfWide(r, min, max) == IF r.threw THEN r ELSE Ok(ScaleFloor(r.val, max - min + 2) + min)

\* Math.floor(r * (max - min + 1) + min)
intOf(r, min, max) == IF r.threw THEN r ELSE Ok(ScaleFloor(r.val, max - min + 1) + min)

\* randomInt
randomInt(e, s, a, k, min, max) == intOf(random(e, s, a, k), min, max)

\* (r * (1 << 24)) | 0: the top 24 bits of the word
Int24(w) == w[1] * 256 + w[2] \div 256

\* the code unit of a hexadecimal digit: '0'..'9', 'a'..'f'
HexDigit(d) == IF d < 10 THEN 48 + d ELSE 87 + d

RECURSIVE toString16(_)
\* n.toString(16) for a natural number n
toString16(n) == IF n < 16 THEN <<HexDigit(n)>> ELSE Append(toString16(n \div 16), HexDigit(n % 16))

\* str.slice(-6): the last six code units, or all of them when there are fewer
sliceLast6(str) == IF Len(str) <= 6 THEN str ELSE SubSeq(str, Len(str) - 5, Len(str))

\* the digits alone, with no padding: '#' + n.toString(16)
hexColorOfUnpadded(r) == IF r.threw THEN r ELSE Ok(<<35>> \o toString16(Int24(r.val)))

\* '#' + ('00000' + n.toString(16)).slice(-6)
hexColorOf(r) ==
    IF r.threw THEN r
    ELSE Ok(<<35>> \o sliceLast6(<<48, 48, 48, 48, 48>> \o toString16(Int24(r.val))))

\* randomHexColor
randomHexColor(e, s, a, k) == hexColorOf(random(e, s, a, k))

\* array[i] for the index i that r holds: undefined outside the array
elementAt(array, r) ==
    IF r.threw THEN r
    ELSE Ok(IF r.val >= 0 /\ r.val < Len(array) THEN array[r.val + 1] ELSE Undefined)

\* an index drawn from 0..length, one past the last element
randomItemPast(e, s, a, k, array) ==
    IF Len(array) = 0 THEN Ok(Undefined)
    ELSE elementAt(array, randomInt(e, s, a, k, 0, Len(array)))

\* randomItem: undefined for an empty array, before anything is drawn
randomItem(e, s, a, k, array) ==
    IF Len(array) = 0 THEN Ok(Undefined)
    ELSE elementAt(array, randomInt(e, s, a, k, 0, Len(array) - 1))

\* Object.keys(object): an object is the sequence of its own properties
\* [key, value] as they were inserted, which is the order of its keys when none
\* of them is an array index
objectKeys(object) == [i \in 1..Len(object) |-> S(object[i].key)]

\* whether a condition takes x for true: not undefined, '' or 0
truthy(x) ==
    CASE x.t = "undefined" -> FALSE
      [] x.t = "string" -> Len(x.v) > 0
      [] OTHER -> x.v[1] # 0

\* object.hasOwnProperty(key)
hasOwnProperty(object, key) == \E i \in 1..Len(object) : object[i].key = key.v

\* object[key] for a key the object has
propertyValue(object, key) == object[CHOOSE i \in 1..Len(object) : object[i].key = key.v].value

\* if (key && object.hasOwnProperty(key)) return object[key]; undefined otherwise
propertyFor(object, r) ==
    IF r.threw THEN r
    ELSE IF truthy(r.val) /\ hasOwnProperty(object, r.val)
         THEN Ok(propertyValue(object, r.val))
         ELSE Ok(Undefined)

\* randomObjectProperty
randomObjectProperty(e, s, a, k, object) ==
    propertyFor(object, randomItem(e, s, a, k, objectKeys(object)))

\* toFixed: the integer nearest to the number x, whose floor is `up` and whose
\* negation's floor is `down`, both counted in eighths; toFixed rounds the
\* magnitude, a tie going away from zero
toFixed(up, down) == IF up >= 0 THEN (up + 4) \div 8 ELSE -((down + 4) \div 8)

\* Math.min(min + r * (max - min), max), scaled by sc and floored, in eighths
clamped(w, min, max, sc) ==
    IF ScaleCeil(w, max - min) > max - min THEN max * sc
    ELSE min * sc + ScaleFloor(w, (max - min) * sc)

\* the negation of the same number, scaled by sc and floored, in eighths
clampedNeg(w, min, max, sc) ==
    IF ScaleCeil(w, max - min) > max - min THEN -(max * sc)
    ELSE -(min * sc) + ScaleFloor(w, -((max - min) * sc))

\* parseFloat(Math.min(min + r * (max - min), max).toFixed(precision)): min and
\* max are counted in eighths, which doubles hold exactly; the result is the
\* decimal numeral num / den that toFixed writes and parseFloat reads back
floatOf(r, min, max, precision) ==
    IF r.threw THEN r
    ELSE Ok([num |-> toFixed(clamped(r.val, min, max, Pow10(precision)),
                             clampedNeg(r.val, min, max, Pow10(precision))),
             den |-> Pow10(precision)])

\* randomFloat
randomFloat(e, s, a, k, min, max, precision) ==
    floatOf(random(e, s, a, k), min, max, precision)

RECURSIVE SumOf(_, _)
\* totalWeight: the sum of the first n weights
SumOf(weights, n) == IF n = 0 THEN 0 ELSE SumOf(weights, n - 1) + weights[n]

RECURSIVE IndexLoopAtMost(_, _, _)
\* the loop with weight <= weights[i] for its test, which stops at a weight of
\* zero that the code passes over
IndexLoopAtMost(fl, weights, i) ==
    IF i > Len(weights) THEN 0
    ELSE IF fl <= weights[i] THEN i - 1
    ELSE IndexLoopAtMost(fl - weights[i], weights, i + 1)

RECURSIVE IndexLoop(_, _, _)
\* the loop of randomIndex over integer weights; fl is the floor of `weight`,
\* and weight < weights[i] exactly when floor(weight) < weights[i]
IndexLoop(fl, weights, i) ==
    IF i > Len(weights) THEN 0
    ELSE IF fl < weights[i] THEN i - 1
    ELSE IndexLoop(fl - weights[i], weights, i + 1)

\* randomIndex warns on the console when the weights sum to 0 or less
warns(weights) == Len(weights) # 0 /\ SumOf(weights, Len(weights)) <= 0

\* a randomIndex that gives up with -1 when the weights sum to 0 or less
\* instead of warning and going on
indexForStrict(r, weights) ==
    IF r.threw THEN r
    ELSE IF SumOf(weights, Len(weights)) <= 0 THEN Ok(-1)
    ELSE Ok(IndexLoop(ScaleFloor(r.val, SumOf(weights, Len(weights))), weights, 1))

\* the loop run on the draw itself, weight = r, which is below 1
indexForUnscaled(r, weights) ==
    IF r.threw THEN r ELSE Ok(IndexLoop(0, weights, 1))

\* the index chosen for the draw r: weight = r * totalWeight, then the loop
indexFor(r, weights) ==
    IF r.threw THEN r
    ELSE Ok(IndexLoop(ScaleFloor(r.val, SumOf(weights, Len(weights))), weights, 1))

\* randomIndex: -1 for no weights, before anything is drawn
randomIndex(e, s, a, k, weights) ==
    IF Len(weights) = 0 THEN Ok(-1) ELSE indexFor(random(e, s, a, k), weights)

(***************************************************************************)
(* Controllers and the registry.  The operations below work on a record m  *)
(* of the instance's fields (seed, algorithm, controllers), the controller *)
(* objects (ctl), the getValue invocations counted per controller during   *)
(* the running call (calls) and whether an exception is propagating.       *)
(***************************************************************************)
\* the items of an item list: of an array (items[i].value), of a map
\* (key and value) or of weighted items (weight and value)
Item(key, weight, value) == [key |-> key, value |-> value, weight |-> weight]

\* the array of the values of an item list
valuesOf(items) == [i \in 1..Len(items) |-> items[i].value]

\* this.items.map((item) => item.weight)
weightsOf(items) == [i \in 1..Len(items) |-> items[i].weight]

\* this.items[index].value for the index r holds: reading a property of the
\* undefined that stands outside the array throws a TypeError
itemValueAt(items, r) ==
    IF r.threw THEN r
    ELSE IF r.val >= 0 /\ r.val < Len(items) THEN Ok(items[r.val + 1].value) ELSE Throw

\* a number or a boolean the engine returned, as a value
valueOf(kind, r) ==
    IF r.threw THEN r
    ELSE Ok(CASE kind = "boolean" -> B(r.val)
              [] kind = "int" -> N(r.val)
              [] OTHER -> r.val)

\* what controller o asks of the engine: prng.randomBoolean, prng.randomInt,
\* prng.randomItem, prng.randomObjectProperty, or prng.randomIndex and the item
\* at the index
compute(e, s, a, o) ==
    CASE o.kind = "boolean" -> randomBoolean(e, s, a, S(o.seed), o.probability)
      [] o.kind = "int" -> randomInt(e, s, a, S(o.seed), o.min, o.max)
      [] o.kind = "item" -> randomItem(e, s, a, S(o.seed), valuesOf(o.items))
      [] o.kind = "property" -> randomObjectProperty(e, s, a, S(o.seed), o.items)
      [] o.kind = "weights" ->
            itemValueAt(o.items, randomIndex(e, s, a, S(o.seed), weightsOf(o.items)))

\* this.value = r, unless r is an exception
assign(m, c, r) ==
    IF r.threw THEN [m EXCEPT !.threw = TRUE]
    ELSE [m EXCEPT !.ctl[c].value = valueOf(m.ctl[c].kind, r).val]

\* one more invocation of getValue on controller c
counted(m, c) == [m EXCEPT !.calls[c] = @ + 1]

\* controller.getValue() of controller c
getValue(e, m, c) == assign(counted(m, c), c, compute(e, m.seed, m.algorithm, m.ctl[c]))

RECURSIVE forEachGetValue(_, _, _)
\* this.controllers.forEach((controller) => controller.getValue()), from the
\* i-th controller on; an exception leaves the loop and the caller
forEachGetValue(e, m, i) ==
    IF m.threw \/ i > Len(m.controllers) THEN m
    ELSE forEachGetValue(e, getValue(e, m, m.controllers[i]), i + 1)

\* the write this.seed = str: a plain field (legacy), the base setter, or the
\* setter of the accessors subclass, which notifies
writeSeed(e, m, str) ==
    IF e = "accessors"
    THEN IF m.seed = str THEN m ELSE forEachGetValue(e, [m EXCEPT !.seed = str], 1)
    ELSE [m EXCEPT !.seed = str]

\* the write this.algorithm = fn
writeAlgorithm(e, m, fn) ==
    IF e = "accessors"
    THEN IF m.algorithm = fn THEN m ELSE forEachGetValue(e, [m EXCEPT !.algorithm = fn], 1)
    ELSE [m EXCEPT !.algorithm = fn]

\* setSeed of the base class, and the assignment of the legacy class
superSetSeed(e, m, v) == writeSeed(e, m, IF e = "legacy" THEN v.v ELSE TemplateString(v))

\* setAlgorithm of the base class, and the assignment of the legacy class
superSetAlgorithm(e, m, name) == writeAlgorithm(e, m, getAlgorithmByName(name))

\* the guard of setSeed: if (this.seed === seed) return
seedUnchanged(e, m, v) ==
    CASE e = "legacy" -> StrictEq(S(m.seed), v)
      [] e = "base" -> FALSE
      [] e = "managed" -> StrictEq(seedOf(e, m.seed), v)
      [] e = "accessors" -> StrictEq(seedOf(e, m.seed), S(TemplateString(v)))

\* the guard of setAlgorithm, which the legacy and the base class do not have
algorithmUnchanged(e, m, name) ==
    IF e \in {"legacy", "base"} THEN FALSE
    ELSE algorithmOf(e, m.algorithm) = getAlgorithmByName(name)

\* the forEach that ends setSeed and setAlgorithm, which the base class does not have
notify(e, m) == IF e = "base" THEN m ELSE forEachGetValue(e, m, 1)

\* a setSeed that runs the controllers before it stores the seed, so that
\* they recompute from the old one
setSeedEarly(e, m, v) ==
    IF seedUnchanged(e, m, v) THEN m ELSE superSetSeed(e, notify(e, m), v)

\* prng.setSeed(v)
setSeed(e, m, v) == IF seedUnchanged(e, m, v) THEN m ELSE notify(e, superSetSeed(e, m, v))

\* prng.setAlgorithm(name)
setAlgorithm(e, m, name) ==
    IF algorithmUnchanged(e, m, name) THEN m ELSE notify(e, superSetAlgorithm(e, m, name))

\* prng.addController(c)
addController(m, c) == [m EXCEPT !.controllers = Append(@, c)]

\* Array.prototype.indexOf, counting from 0; -1 when c is not in the array
indexOf(arr, c) ==
    IF \E i \in 1..Len(arr) : arr[i] = c
    THEN (CHOOSE i \in 1..Len(arr) : arr[i] = c /\ \A j \in 1..(i - 1) : arr[j] # c) - 1
    ELSE -1

\* where splice starts: a negative index counts from the end
spliceStart(n, index) ==
    IF index < 0 THEN (IF n + index < 0 THEN 0 ELSE n + index)
    ELSE (IF index > n THEN n ELSE index)

\* the array without the element after the first `start`, if there is one
without(arr, start) ==
    [i \in 1..(IF start < Len(arr) THEN Len(arr) - 1 ELSE Len(arr)) |->
        IF i <= start THEN arr[i] ELSE arr[i + 1]]

\* Array.prototype.splice(index, 1)
splice(arr, index) == without(arr, spliceStart(Len(arr), index))

\* prng.removeController(c)
removeController(m, c) ==
    [m EXCEPT !.controllers = splice(@, indexOf(@, c))]

\* the object under construction, registered by the base constructor
constructed(m, o) ==
    addController([m EXCEPT !.ctl = Append(@, o), !.calls = Append(@, 0)], Len(m.ctl) + 1)

\* new BooleanController(k, probability): this.value = this.getValue()
newBooleanController(e, m, k, probability) ==
    getValue(e, constructed(m, [kind |-> "boolean", seed |-> k, probability |-> probability,
                                min |-> 0, max |-> 0, items |-> <<>>, value |-> Undefined]),
             Len(m.ctl) + 1)

\* new IntController(k, min, max): this.value = prng.randomInt(this.seed, min, max)
newIntController(e, m, k, min, max) ==
    assign(constructed(m, [kind |-> "int", seed |-> k, probability |-> <<0, 1>>,
                           min |-> min, max |-> max, items |-> <<>>, value |-> Undefined]),
           Len(m.ctl) + 1,
           randomInt(e, m.seed, m.algorithm, S(k), min, max))

\* new ItemController(k, items), new ObjectPropertyController(k, object) and
\* new WeightsController(k, items): this.value = this.getValue()
newItemsController(e, m, kind, k, items) ==
    getValue(e, constructed(m, [kind |-> kind, seed |-> k, probability |-> <<0, 1>>,
                                min |-> 0, max |-> 0, items |-> items, value |-> Undefined]),
             Len(m.ctl) + 1)

\* controller.dispose(), the controller having no GUI
dispose(m, c) == removeController(m, c)

\* this.controllers[index] of a group: 0 for an index the array has nothing at
childAt(group, index) ==
    IF index + 1 <= Len(group.controllers) THEN group.controllers[index + 1] ELSE 0

\* this.controllers[index] = c, which lengthens the array over empty slots
withChild(arr, index, c) ==
    [j \in 1..(IF index + 1 > Len(arr) THEN index + 1 ELSE Len(arr)) |->
        IF j = index + 1 THEN c ELSE IF j <= Len(arr) THEN arr[j] ELSE 0]

\* `${this.seed}-${index}`
childSeed(group, index) == group.seed \o <<45>> \o Digits(index)

\* the end of getValueAt after createController: an exception leaves the
\* group as it was
remembered(m, g, index, c) ==
    IF m.threw THEN m ELSE [m EXCEPT !.groups[g].controllers = withChild(@, index, c)]

\* group.getValueAt(index) of a BooleanGroupController without GUI, up to its
\* return statement
getValueAt(e, m, g, index) ==
    IF childAt(m.groups[g], index) # 0 THEN m
    ELSE remembered(newBooleanController(e, m, childSeed(m.groups[g], index),
                                         m.groups[g].probability),
                    g, index, Len(m.ctl) + 1)

\* return controller.value
returned(m, g, index) ==
    IF m.threw THEN Throw ELSE Ok(m.ctl[childAt(m.groups[g], index)].value)

RECURSIVE forEachDispose(_, _, _)
\* this.controllers.forEach((controller) => controller.dispose()), from the
\* j-th slot on; forEach passes over the empty slots
forEachDispose(m, arr, j) ==
    IF j > Len(arr) THEN m
    ELSE forEachDispose(IF arr[j] = 0 THEN m ELSE dispose(m, arr[j]), arr, j + 1)

\* group.dispose(): the children are disposed, then this.controllers = []
disposeGroup(m, g) ==
    [forEachDispose(m, m.groups[g].controllers, 1) EXCEPT !.groups[g].controllers = <<>>]

\* new BooleanGroupController(k, probability)
newBooleanGroup(m, k, probability) ==
    [m EXCEPT !.groups = Append(@, [seed |-> k, probability |-> probability,
                                    controllers |-> <<>>])]

(***************************************************************************)
(* The state machine                                                       *)
(***************************************************************************)
\* no call is pending
Idle == [op |-> "idle"]

\* the observer of random(): absent, waiting for a call, or holding one
Off == [st |-> "off"]
Watching == [st |-> "watching"]

Probabilities == {<<0, 1>>, <<1, 4>>, <<1, 2>>, <<1, 1>>}
Ints == (-1)..MaxInt
Eighths == {-5, 0, 1, 5, 8}
Precisions == 0..MaxPrecision
WeightValues == {-1, 0, 1, 2}
RECURSIVE ListsUpTo(_)
ListsUpTo(n) ==
    IF n = 0 THEN {<<>>}
    ELSE ListsUpTo(n - 1) \cup
         {Append(l, x) : l \in {q \in ListsUpTo(n - 1) : Len(q) = n - 1}, x \in WeightValues}
WeightLists == ListsUpTo(MaxWeights)
\* the elements of the arrays drawn: the strings '', 'a' and 'b'
ItemValues == {S(<<>>), S(<<97>>), S(<<98>>)}
RECURSIVE ArraysUpTo(_)
ArraysUpTo(n) ==
    IF n = 0 THEN {<<>>}
    ELSE ArraysUpTo(n - 1) \cup
         {Append(l, x) : l \in {q \in ArraysUpTo(n - 1) : Len(q) = n - 1}, x \in ItemValues}
ItemArrays == ArraysUpTo(MaxItems)
\* the keys of the maps drawn, '', 'a' and 'b', and their values, 0 and 1
KeyStrings == {<<>>, <<97>>, <<98>>}
PropertyValues == {N(0), N(1)}
RECURSIVE ObjectsUpTo(_)
ObjectsUpTo(n) ==
    IF n = 0 THEN {<<>>}
    ELSE ObjectsUpTo(n - 1) \cup
         {Append(o, [key |-> key, value |-> x]) :
              o \in {q \in ObjectsUpTo(n - 1) : Len(q) = n - 1},
              key \in KeyStrings, x \in PropertyValues}
\* no key twice
Objects == {o \in ObjectsUpTo(MaxItems) : \A i, j \in 1..Len(o) : o[i].key = o[j].key => i = j}
ControllerSeeds == {<<49>>, <<50>>}

\* the seeds each class's setSeed is given: strings and numbers, which the
\* legacy class alone does not claim to take
SeedArgsOf(e) ==
    IF e = "legacy" THEN {S(str) : str \in SeedStrings} ELSE SeedArgs

\* new PRNG(): the field initialisers
Fresh(e) ==
    /\ engine = e
    /\ seed = <<>>
    /\ algorithm = "splitmix32"
    /\ controllers = <<>>
    /\ ctl = <<>>
    /\ groups = <<>>
    /\ last = Idle

Init == \E e \in Engines : Fresh(e) /\ noted = Off

InitRandom == \E e \in Engines : Fresh(e) /\ noted = Watching

\* the fields as a call finds them
Machine ==
    [seed |-> seed, algorithm |-> algorithm, controllers |-> controllers, ctl |-> ctl,
     groups |-> groups, calls |-> [c \in 1..Len(ctl) |-> 0], threw |-> FALSE]

\* the fields as a call leaves them
Adopt(m) ==
    /\ seed' = m.seed
    /\ algorithm' = m.algorithm
    /\ controllers' = m.controllers
    /\ ctl' = m.ctl
    /\ groups' = m.groups

\* how a call without a result ends
Done(m) == IF m.threw THEN Throw ELSE Ok(Undefined)

\* the call op(arg) ends with the fields as in m; `same` tells whether a setter
\* was given the value already stored, `changed` whether it stored another
Ended(op, arg, same, m) ==
    /\ Adopt(m)
    /\ last' = [op |-> op, arg |-> arg, same |-> same,
                changed |-> (m.seed # seed \/ m.algorithm # algorithm),
                calls |-> m.calls, out |-> Done(m)]

\* setAlgorithm leaves the algorithm fn stored, after the call the observer holds
Switched(n, fn) ==
    IF n.st = "noted" THEN [n EXCEPT !.switched = @ \/ n.algorithm # fn] ELSE n

SetSeed(v) ==
    /\ last.op = "idle"
    /\ Ended("setSeed", v, TemplateString(v) = seed, setSeed(engine, Machine, v))
    /\ UNCHANGED <<engine, noted>>

SetAlgorithm(name) ==
    /\ last.op = "idle"
    /\ Ended("setAlgorithm", name, getAlgorithmByName(name) = algorithm,
             setAlgorithm(engine, Machine, name))
    /\ noted' = Switched(noted, algorithm')
    /\ UNCHANGED engine

NewBooleanController(k, probability) ==
    /\ last.op = "idle"
    /\ engine # "base"
    /\ Len(ctl) < MaxControllers
    /\ Ended("new", k, FALSE, newBooleanController(engine, Machine, k, probability))
    /\ UNCHANGED <<engine, noted>>

NewIntController(k, min, max) ==
    /\ last.op = "idle"
    /\ engine # "base"
    /\ Len(ctl) < MaxControllers
    /\ Ended("new", k, FALSE, newIntController(engine, Machine, k, min, max))
    /\ UNCHANGED <<engine, noted>>

Dispose(c) ==
    /\ last.op = "idle"
    /\ Ended("dispose", c, FALSE, dispose(Machine, c))
    /\ UNCHANGED <<engine, noted>>

\* new ItemController, new ObjectPropertyController or new WeightsController,
\* by kind
NewItemsController(kind, k, items) ==
    /\ last.op = "idle"
    /\ engine # "base"
    /\ Len(ctl) < MaxControllers
    /\ Ended("new", k, FALSE, newItemsController(engine, Machine, kind, k, items))
    /\ UNCHANGED <<engine, noted>>

NewBooleanGroup(k, probability) ==
    /\ last.op = "idle"
    /\ engine # "base"
    /\ Len(groups) < MaxGroups
    /\ Ended("newGroup", k, FALSE, newBooleanGroup(Machine, k, probability))
    /\ UNCHANGED <<engine, noted>>

\* the call op(arg) ends with the fields as in m and the outcome out
EndedWith(op, arg, m, out) ==
    /\ Adopt(m)
    /\ last' = [op |-> op, arg |-> arg, same |-> FALSE, changed |-> FALSE,
                calls |-> m.calls, out |-> out]

\* groups[g].getValueAt(index)
GetValueAtIn(m, g, index) == EndedWith("getValueAt", <<g, index>>, m, returned(m, g, index))

GetValueAt(g, index) ==
    /\ last.op = "idle"
    /\ childAt(groups[g], index) # 0 \/ Len(ctl) < MaxControllers
    /\ GetValueAtIn(getValueAt(engine, Machine, g, index), g, index)
    /\ UNCHANGED <<engine, noted>>

DisposeGroup(g) ==
    /\ last.op = "idle"
    /\ Ended("disposeGroup", g, FALSE, disposeGroup(Machine, g))
    /\ UNCHANGED <<engine, noted>>

\* random(k) ends with out; a watching observer notes the call
Observed(k, out) ==
    /\ last' = [op |-> "random", k |-> k, again |-> (noted.st = "noted"), out |-> out]
    /\ noted' = IF noted.st = "watching"
                THEN [st |-> "noted", seed |-> seed, algorithm |-> algorithm,
                      k |-> k, out |-> out, others |-> FALSE, switched |-> FALSE,
                      away |-> FALSE]
                ELSE noted

\* another derived operation runs after the call the observer holds; `away`
\* tells that one ran under another algorithm than that call's
Between(n) ==
    IF n.st = "noted"
    THEN [n EXCEPT !.others = TRUE, !.away = @ \/ n.algorithm # algorithm]
    ELSE n

\* a random() that reseeds the engine as it draws, the way a generator with a
\* running state would
CallRandomReseeding(k) ==
    /\ last.op = "idle"
    /\ Observed(k, random(engine, seed, algorithm, k))
    /\ seed' = IF seed = <<>> THEN <<49>> ELSE <<>>
    /\ UNCHANGED <<engine, algorithm, controllers, ctl, groups>>

CallRandom(k) ==
    /\ last.op = "idle"
    /\ Observed(k, random(engine, seed, algorithm, k))
    /\ UNCHANGED <<engine, seed, algorithm, controllers, ctl, groups>>

CallRandomBoolean(k, probability) ==
    /\ last.op = "idle"
    /\ last' = [op |-> "randomBoolean", k |-> k, probability |-> probability,
                out |-> randomBoolean(engine, seed, algorithm, k, probability)]
    /\ UNCHANGED <<engine, seed, algorithm, controllers, ctl, groups, noted>>

CallRandomSign(k, probability) ==
    /\ last.op = "idle"
    /\ last' = [op |-> "randomSign", k |-> k, probability |-> probability,
                out |-> randomSign(engine, seed, algorithm, k, probability)]
    /\ UNCHANGED <<engine, seed, algorithm, controllers, ctl, groups, noted>>

CallRandomInt(k, min, max) ==
    /\ last.op = "idle"
    /\ last' = [op |-> "randomInt", k |-> k, min |-> min, max |-> max,
                out |-> randomInt(engine, seed, algorithm, k, min, max)]
    /\ noted' = Between(noted)
    /\ UNCHANGED <<engine, seed, algorithm, controllers, ctl, groups>>

CallRandomFloat(k, min, max, precision) ==
    /\ last.op = "idle"
    /\ last' = [op |-> "randomFloat", k |-> k, min |-> min, max |-> max,
                precision |-> precision,
                out |-> randomFloat(engine, seed, algorithm, k, min, max, precision)]
    /\ UNCHANGED <<engine, seed, algorithm, controllers, ctl, groups, noted>>

CallRandomHexColor(k) ==
    /\ last.op = "idle"
    /\ last' = [op |-> "randomHexColor", k |-> k,
                out |-> randomHexColor(engine, seed, algorithm, k)]
    /\ UNCHANGED <<engine, seed, algorithm, controllers, ctl, groups, noted>>

CallRandomItem(k, array) ==
    /\ last.op = "idle"
    /\ last' = [op |-> "randomItem", k |-> k, array |-> array,
                out |-> randomItem(engine, seed, algorithm, k, array)]
    /\ UNCHANGED <<engine, seed, algorithm, controllers, ctl, groups, noted>>

CallRandomObjectProperty(k, object) ==
    /\ last.op = "idle"
    /\ last' = [op |-> "randomObjectProperty", k |-> k, object |-> object,
                out |-> randomObjectProperty(engine, seed, algorithm, k, object)]
    /\ UNCHANGED <<engine, seed, algorithm, controllers, ctl, groups, noted>>

\* randomGaussian, which the class of src/src/prng.ts does not have
CallRandomGaussian(k, mean, spread) ==
    /\ last.op = "idle"
    /\ engine # "legacy"
    /\ last' = [op |-> "randomGaussian", k |-> k, mean |-> mean, spread |-> spread,
                out |-> randomGaussian(engine, seed, algorithm, k, mean, spread)]
    /\ UNCHANGED <<engine, seed, algorithm, controllers, ctl, groups, noted>>

CallRandomIndex(k, weights) ==
    /\ last.op = "idle"
    /\ last' = [op |-> "randomIndex", k |-> k, weights |-> weights,
                warned |-> warns(weights),
                out |-> randomIndex(engine, seed, algorithm, k, weights)]
    /\ noted' = Between(noted)
    /\ UNCHANGED <<engine, seed, algorithm, controllers, ctl, groups>>

\* the caller takes the outcome of the call
Return ==
    /\ last.op # "idle"
    /\ last' = Idle
    /\ UNCHANGED <<engine, seed, algorithm, controllers, ctl, groups, noted>>

SetSeedAny == \E v \in SeedArgsOf(engine) : SetSeed(v)
SetAlgorithmAny == \E name \in AlgorithmArgs : SetAlgorithm(name)
NewBooleanControllerAny == \E k \in ControllerSeeds : NewBooleanController(k, <<1, 2>>)
NewIntControllerAny == \E k \in ControllerSeeds : NewIntController(k, 0, MaxInt)
DisposeAny == \E c \in 1..Len(ctl) : Dispose(c)

\* the item lists the controllers are given, by kind: the first n of the array
\* ['a', 'b', ..], of the map {a: 1, b: 2, ..} or of the weighted items
\* [{weight: 1, value: 1}, {weight: 2, value: 2}, ..]
ItemsOf(kind, n) ==
    [i \in 1..n |->
        CASE kind = "item" -> Item(<<>>, 0, S(<<96 + i>>))
          [] kind = "property" -> Item(<<96 + i>>, 0, N(i))
          [] kind = "weights" -> Item(<<>>, i, N(i))]

ItemsKinds == {"item", "property", "weights"}

NewItemsControllerAny ==
    \E kind \in ItemsKinds, n \in 0..MaxItems : NewItemsController(kind, <<49>>, ItemsOf(kind, n))
NewBooleanGroupAny == \E k \in GroupSeeds : NewBooleanGroup(k, <<1, 2>>)
GetValueAtAny == \E g \in 1..Len(groups), index \in 0..MaxIndex : GetValueAt(g, index)
DisposeGroupAny == \E g \in 1..Len(groups) : DisposeGroup(g)
CallRandomAny == \E k \in SubSeedArgs : CallRandom(k)
CallRandomBooleanAny == \E k \in SubSeedArgs, p \in Probabilities : CallRandomBoolean(k, p)
CallRandomSignAny == \E k \in SubSeedArgs, p \in Probabilities : CallRandomSign(k, p)
CallRandomIntAny == \E k \in SubSeedArgs, min \in Ints, max \in Ints : CallRandomInt(k, min, max)
CallRandomFloatAny ==
    \E k \in SubSeedArgs, min \in Eighths, max \in Eighths, p \in Precisions :
        CallRandomFloat(k, min, max, p)
CallRandomHexColorAny == \E k \in SubSeedArgs : CallRandomHexColor(k)
CallRandomItemAny == \E k \in SubSeedArgs, array \in ItemArrays : CallRandomItem(k, array)
CallRandomObjectPropertyAny ==
    \E k \in SubSeedArgs, object \in Objects : CallRandomObjectProperty(k, object)
CallRandomGaussianAny ==
    \E k \in SubSeedArgs, mean \in Ints, spread \in Ints : CallRandomGaussian(k, mean, spread)
CallRandomIndexAny == \E k \in SubSeedArgs, weights \in WeightLists : CallRandomIndex(k, weights)

\* the engine and its controllers
Next ==
    \/ SetSeedAny
    \/ SetAlgorithmAny
    \/ NewBooleanControllerAny
    \/ NewIntControllerAny
    \/ DisposeAny
    \/ Return

Spec == Init /\ [][Next]_vars

\* the engine and the operations derived from random()
NextCalls ==
    \/ SetSeedAny
    \/ SetAlgorithmAny
    \/ CallRandomAny
    \/ CallRandomBooleanAny
    \/ CallRandomSignAny
    \/ CallRandomIntAny
    \/ CallRandomFloatAny
    \/ CallRandomHexColorAny
    \/ CallRandomItemAny
    \/ CallRandomObjectPropertyAny
    \/ CallRandomIndexAny
    \/ CallRandomGaussianAny
    \/ Return

SpecCalls == Init /\ [][NextCalls]_vars

\* the engine under an observer of random()
NextRandom ==
    \/ SetSeedAny
    \/ SetAlgorithmAny
    \/ CallRandomAny
    \/ \E k \in SubSeedArgs : CallRandomInt(k, 0, MaxInt)
    \/ \E k \in SubSeedArgs : CallRandomIndex(k, <<1, 2>>)
    \/ Return

SpecRandom == InitRandom /\ [][NextRandom]_vars

\* an algorithm is called on four words of the caller's choosing
CallAlgorithm(fn, h) ==
    /\ last.op = "idle"
    /\ last' = [op |-> "algorithm", fn |-> fn, words |-> h, out |-> Apply(fn, h)]
    /\ UNCHANGED <<engine, seed, algorithm, controllers, ctl, groups, noted>>

\* the halves the words are made of: no bit, the top bit, every bit
Halves == {0, 32768, 65535}
Words == {W(hi, lo) : hi \in Halves, lo \in Halves}

CallAlgorithmAny ==
    /\ last.op = "idle"
    /\ \E fn \in AlgorithmNames, a \in Words, b \in Words, c \in Words, d \in Words :
           CallAlgorithm(fn, <<a, b, c, d>>)

\* the algorithms on their own
NextAlgorithms ==
    \/ CallAlgorithmAny
    \/ Return

SpecAlgorithms == Init /\ [][NextAlgorithms]_vars

\* cyrb128 is called on a string of the caller's choosing; `final` keeps h1..h4
\* as they stand at the return statement
CallCyrb128(str) ==
    /\ last.op = "idle"
    /\ last' = [op |-> "cyrb128", str |-> str,
                final |-> Then(cyrb128Accumulators(str), cyrb128Final),
                out |-> cyrb128(str)]
    /\ UNCHANGED <<engine, seed, algorithm, controllers, ctl, groups, noted>>

\* the code units hashed: '1', 'a' and the euro sign, which takes more than a byte
HashChars == {49, 97, 8364}

RECURSIVE HashStringsUpTo(_)
HashStringsUpTo(n) ==
    IF n = 0 THEN {<<>>}
    ELSE HashStringsUpTo(n - 1) \cup
         {Append(str, c) : str \in {q \in HashStringsUpTo(n - 1) : Len(q) = n - 1},
                           c \in HashChars}

HashStrings == HashStringsUpTo(MaxHashLen)

CallCyrb128Any == \E str \in HashStrings : CallCyrb128(str)

\* the hash on its own
NextHash ==
    \/ CallCyrb128Any
    \/ Return

SpecHash == Init /\ [][NextHash]_vars

\* the engine and controllers over lists of items, the empty list among them
NextItems ==
    \/ SetSeedAny
    \/ SetAlgorithmAny
    \/ NewItemsControllerAny
    \/ Return

SpecItems == Init /\ [][NextItems]_vars

\* the engine, a group controller and a controller of its own
NextGroups ==
    \/ SetSeedAny
    \/ NewIntControllerAny
    \/ DisposeAny
    \/ NewBooleanGroupAny
    \/ GetValueAtAny
    \/ DisposeGroupAny
    \/ Return

SpecGroups == Init /\ [][NextGroups]_vars

\* the engine with controllers registered, under one call of each derived operation
NextFrame ==
    \/ SetSeedAny
    \/ SetAlgorithmAny
    \/ NewIntControllerAny
    \/ CallRandomAny
    \/ \E k \in SubSeedArgs : CallRandomBoolean(k, <<1, 2>>)
    \/ \E k \in SubSeedArgs : CallRandomSign(k, <<1, 2>>)
    \/ \E k \in SubSeedArgs : CallRandomFloat(k, 0, 8, MaxPrecision)
    \/ \E k \in SubSeedArgs : CallRandomInt(k, 0, MaxInt)
    \/ CallRandomHexColorAny
    \/ \E k \in SubSeedArgs : CallRandomItem(k, <<S(<<97>>), S(<<98>>)>>)
    \/ \E k \in SubSeedArgs :
           CallRandomObjectProperty(k, <<[key |-> <<97>>, value |-> N(1)],
                                         [key |-> <<98>>, value |-> N(0)]>>)
    \/ \E k \in SubSeedArgs : CallRandomIndex(k, <<1, 2>>)
    \/ \E k \in SubSeedArgs : CallRandomGaussian(k, 0, 1)
    \/ Return

SpecFrame == Init /\ [][NextFrame]_vars

(***************************************************************************)
(* Properties                                                              *)
(***************************************************************************)
\* two calls ended the same way: both threw, or both returned the same value
SameOutcome(x, y) == x.threw = y.threw /\ (~x.threw => x.val = y.val)

\* the call just made is random(k) with the seed, the algorithm and the
\* sub-seed of the call the observer holds
Repeats ==
    /\ last.op = "random"
    /\ noted.st = "noted"
    /\ noted.seed = seed
    /\ noted.algorithm = algorithm
    /\ noted.k = last.k

\* the call just made is a setter that stored another seed or algorithm
Changing == last.op \in {"setSeed", "setAlgorithm"} /\ last.changed

\* how often the call just made invoked getValue on the i-th registered controller
Invoked(i) == last.calls[controllers[i]]

\* the value controller o holds after getValue with the stored seed and algorithm
Recomputed(o, r) == IF r.threw THEN Undefined ELSE valueOf(o.kind, r).val

\* whether the engine's random() ends in an exception
RandomThrows == algorithmOf(engine, algorithm) = NoFunction

C2_SetSeedNoOp ==
    [][(last'.op = "setSeed" /\ last'.same) =>
           /\ seed' = seed
           /\ \A i \in 1..Len(controllers') : last'.calls[controllers'[i]] = 0]_vars

\* C3: setAlgorithm given the name of the active algorithm leaves the
\* algorithm as it is and invokes getValue on no registered controller.
C3_SetAlgorithmNoOp ==
    [][(last'.op = "setAlgorithm" /\ last'.same) =>
           /\ algorithm' = algorithm
           /\ \A i \in 1..Len(controllers') : last'.calls[controllers'[i]] = 0]_vars

\* C4: a setSeed or setAlgorithm call invokes getValue on every registered
\* controller exactly once when it changes the seed or the algorithm, and not
\* at all when it is given the value already stored.
C4_ExactlyOnce ==
    last.op \in {"setSeed", "setAlgorithm"} =>
        \A i \in 1..Len(controllers) : Invoked(i) = IF last.same THEN 0 ELSE 1

\* C5: when a setSeed or setAlgorithm call that changes the seed or the
\* algorithm has returned, it has invoked getValue on every registered
\* controller, and each of them holds the value computed from the seed and the
\* algorithm now stored.
C5_Synchronous ==
    (Changing /\ ~last.out.threw) =>
        \A i \in 1..Len(controllers) :
            /\ Invoked(i) >= 1
            /\ ctl[controllers[i]].value =
                   Recomputed(ctl[controllers[i]],
                              compute(engine, seed, algorithm, ctl[controllers[i]]))

\* a changing setSeed has returned with two controllers registered, both run
C5_Witness ==
    /\ Changing
    /\ last.op = "setSeed"
    /\ ~last.out.threw
    /\ Len(controllers) = 2
    /\ \A i \in 1..Len(controllers) : Invoked(i) = 1

\* C6: random(k) returns the active algorithm applied to cyrb128 of the stored
\* seed followed by k, on every engine.
C6_Concatenation ==
    last.op = "random" =>
        /\ ~last.out.threw
        /\ last.out.val = Draw(algorithm, seed \o TemplateString(last.k))

\* C7: randomInt(k, min, max) with min <= max ends as random(k) does, and a
\* value it returns lies in min..max; it is min when min = max.
C7_IntInRange ==
    (last.op = "randomInt" /\ last.min <= last.max) =>
        /\ last.out.threw = RandomThrows
        /\ ~last.out.threw => (last.out.val >= last.min /\ last.out.val <= last.max)

\* randomInt has returned its upper bound from a range of more than one integer
C7_Witness ==
    /\ last.op = "randomInt"
    /\ last.min < last.max
    /\ ~last.out.threw
    /\ last.out.val = last.max

\* C8: randomFloat(k, min, max, precision) with min <= max returns a number in
\* [min, max]: min / 8 <= num / den <= max / 8, min and max being in eighths.
C8_FloatInRange ==
    (last.op = "randomFloat" /\ last.min <= last.max /\ ~last.out.threw) =>
        /\ last.min * last.out.val.den <= 8 * last.out.val.num
        /\ 8 * last.out.val.num <= last.max * last.out.val.den

\* C9: randomBoolean(k, 0) is false and randomBoolean(k, 1) is true, and
\* randomBoolean ends as random(k) does.
C9_BooleanBounds ==
    last.op = "randomBoolean" =>
        /\ last.out.threw = RandomThrows
        /\ (~last.out.threw /\ last.probability = <<0, 1>>) => last.out.val = FALSE
        /\ (~last.out.threw /\ last.probability = <<1, 1>>) => last.out.val = TRUE

\* randomBoolean(k, 1) has returned true
C9_Witness ==
    /\ last.op = "randomBoolean"
    /\ last.probability = <<1, 1>>
    /\ ~last.out.threw
    /\ last.out.val = TRUE

\* C10: randomIndex returns -1 for no weights; for a list of weights, whatever
\* their sum, it ends as random(k) does and a value it returns is an index of
\* the list, never -1.
C10_IndexInRange ==
    last.op = "randomIndex" =>
        IF Len(last.weights) = 0
        THEN ~last.out.threw /\ last.out.val = -1
        ELSE /\ last.out.threw = RandomThrows
             /\ ~last.out.threw => (last.out.val >= 0 /\ last.out.val < Len(last.weights))

\* randomIndex has warned about weights that sum to 0 or less and returned an
\* index past the first
C10_Witness ==
    /\ last.op = "randomIndex"
    /\ last.warned
    /\ ~last.out.threw
    /\ last.out.val > 0

\* position i of the list holds its one positive weight, the others being zero
OnlyWeight(weights, i) ==
    /\ i \in 1..Len(weights)
    /\ weights[i] > 0
    /\ \A j \in 1..Len(weights) : j # i => weights[j] = 0

\* C11: when one weight is positive and every other weight is zero, a
\* randomIndex that returns gives the index of the positive weight.
C11_WholeMass ==
    (last.op = "randomIndex" /\ ~last.out.threw) =>
        \A i \in 1..Len(last.weights) :
            OnlyWeight(last.weights, i) => last.out.val = i - 1

\* randomIndex has returned 2 for weights [0, 0, 2]
C11_Witness ==
    /\ last.op = "randomIndex"
    /\ last.weights = <<0, 0, 2>>
    /\ ~last.out.threw
    /\ last.out.val = 2

\* the code units '0'..'9' and 'a'..'f'
HexChars == (48..57) \cup (97..102)

RECURSIVE HexValue(_)
\* the number a string of hexadecimal digits writes
HexValue(str) ==
    IF Len(str) = 0 THEN 0
    ELSE 16 * HexValue(SubSeq(str, 1, Len(str) - 1))
         + (IF str[Len(str)] <= 57 THEN str[Len(str)] - 48 ELSE str[Len(str)] - 87)

\* n is floor(w / 2^32 * 2^24): n * 2^8 <= w < (n + 1) * 2^8, by halves
Floor24(n, w) == n \div 256 = w[1] /\ n % 256 = w[2] \div 256

\* C12: randomHexColor(k) ends as random(k) does; what it returns is '#' and
\* six characters of 0-9a-f, which write floor(random(k) * 2^24) in base 16.
C12_HexColor ==
    last.op = "randomHexColor" =>
        /\ last.out.threw = RandomThrows
        /\ ~last.out.threw =>
               /\ Len(last.out.val) = 7
               /\ last.out.val[1] = 35
               /\ \A i \in 2..7 : last.out.val[i] \in HexChars
               /\ Floor24(HexValue(Tail(last.out.val)),
                          Draw(algorithm, seed \o TemplateString(last.k)))

\* randomHexColor has returned a colour that needed a leading zero
C12_Witness ==
    /\ last.op = "randomHexColor"
    /\ ~last.out.threw
    /\ last.out.val[2] = 48

\* C13: randomItem returns undefined for an empty array; for any other it ends
\* as random(k) does, and what it returns is the element at the index
\* floor(random(k) * length), which is one of 0..length-1.
C13_Item ==
    last.op = "randomItem" =>
        IF Len(last.array) = 0
        THEN ~last.out.threw /\ last.out.val = Undefined
        ELSE /\ last.out.threw = RandomThrows
             /\ ~last.out.threw =>
                    \E i \in 0..(Len(last.array) - 1) :
                        /\ i = ScaleFloor(Draw(algorithm, seed \o TemplateString(last.k)),
                                          Len(last.array))
                        /\ last.out.val = last.array[i + 1]

\* randomItem has returned the last element of an array of two different elements
C13_Witness ==
    /\ last.op = "randomItem"
    /\ Len(last.array) = 2
    /\ last.array[1] # last.array[2]
    /\ ~last.out.threw
    /\ last.out.val = last.array[2]

\* the value the map holds under the key that x is
ValueUnder(object, x, val) ==
    \E i \in 1..Len(object) : object[i].key = x.v /\ val = object[i].value

\* C14: a randomObjectProperty that returns gives undefined only for an empty
\* map; for any other it gives the value under the key that randomItem picks
\* from the map's keys.
C14_Property ==
    (last.op = "randomObjectProperty" /\ ~last.out.threw) =>
        IF Len(last.object) = 0
        THEN last.out.val = Undefined
        ELSE /\ last.out.val # Undefined
             /\ ValueUnder(last.object,
                           randomItem(engine, seed, algorithm, last.k,
                                      objectKeys(last.object)).val,
                           last.out.val)

\* C15: setAlgorithm given a name outside the enum fails, and the stored
\* algorithm is one of the five generators afterwards.
C15_Rejected ==
    (last.op = "setAlgorithm" /\ last.arg \notin AlgorithmNames) =>
        /\ last.out.threw
        /\ algorithm \in AlgorithmNames

\* C16: what an algorithm returns is w / 2^32 for a word w of 32 bits, each
\* half of it in 0..2^16-1, so the result is in [0, 1).
C16_UnitInterval ==
    last.op = "algorithm" =>
        /\ last.out[1] \in 0..(H - 1)
        /\ last.out[2] \in 0..(H - 1)

\* sfc32 has returned a word with its top bit set from sums that ran past 32 bits
C16_Witness ==
    /\ last.op = "algorithm"
    /\ last.fn = "sfc32"
    /\ last.words[1][1] + last.words[2][1] + last.words[4][1] >= H
    /\ last.out[1] >= 32768

\* the derived operations
DerivedOps ==
    {"random", "randomBoolean", "randomSign", "randomFloat", "randomInt", "randomHexColor",
     "randomItem", "randomObjectProperty", "randomIndex", "randomGaussian"}

SameEffect(m) ==
    /\ seed' = m.seed
    /\ algorithm' = m.algorithm
    /\ controllers' = m.controllers
    /\ ctl' = m.ctl
    /\ last'.calls = m.calls
    /\ last'.out.threw = m.threw

\* C19: setSeed(n) for a number n does what setSeed(String(n)) would have done
\* in the same state, the early return on an unchanged seed included, and
\* random(n) ends as random(String(n)) does.
C19_Coercion ==
    [][/\ (last'.op = "setSeed" /\ last'.arg.t = "number") =>
              SameEffect(setSeed(engine, Machine, S(TemplateString(last'.arg))))
       /\ (last'.op = "random" /\ last'.k.t = "number") =>
              SameOutcome(last'.out,
                          random(engine, seed, algorithm, S(TemplateString(last'.k))))]_vars

\* C20: a new engine has the seed "", the algorithm splitmix32 and no
\* controllers, and from then on the algorithm is the function setAlgorithm
\* last selected: a call that names one of the five leaves that one, and no
\* other step, a call that names none of them included, changes it.
C20_LastSelected ==
    /\ seed = <<>> /\ algorithm = "splitmix32" /\ controllers = <<>>
    /\ [][algorithm' = IF last'.op = "setAlgorithm" /\ last'.arg \in AlgorithmNames
                       THEN last'.arg
                       ELSE algorithm]_vars

\* w is an integer with 0 <= w < 2^32: each half in 0..2^16-1
IsWord(w) == w[1] \in 0..(H - 1) /\ w[2] \in 0..(H - 1)

\* C21: cyrb128 returns four words, each an integer in 0..2^32-1; the final
\* accumulators, products taken modulo 2^32, are such integers too, and the
\* words are h1^h2^h3^h4, h2^h1, h3^h1 and h4^h1 of them: xoring h1 back into
\* each of the last three gives h2, h3 and h4, and the first is the xor of the
\* other three.
C21_FourWords ==
    last.op = "cyrb128" =>
        /\ Len(last.out) = 4
        /\ \A i \in 1..4 : IsWord(last.out[i]) /\ IsWord(last.final[i])
        /\ \A i \in 2..4 : Xor(last.out[i], last.final[1]) = last.final[i]
        /\ last.out[1] = Xor(Xor(last.out[2], last.out[3]), last.out[4])

\* cyrb128 has hashed the empty string to words of which one has its top bit set
C21_Witness ==
    /\ last.op = "cyrb128"
    /\ last.str = <<>>
    /\ \E i \in 1..4 : last.out[i][1] >= 32768

\* controller c is in the registry reg
Registered(c, reg) == \E i \in 1..Len(reg) : reg[i] = c

\* C22: a controller is registered by its construction and stays registered
\* through every step but its own dispose(), which unregisters it for good;
\* setSeed and setAlgorithm invoke getValue on registered controllers only.
C22_Lifetime ==
    [][/\ last'.op = "new" => Registered(Len(ctl'), controllers')
       /\ \A c \in 1..Len(ctl) :
              /\ (Registered(c, controllers) /\ ~(last'.op = "dispose" /\ last'.arg = c))
                     => Registered(c, controllers')
              /\ (last'.op = "dispose" /\ last'.arg = c) => ~Registered(c, controllers')
              /\ ~Registered(c, controllers) => ~Registered(c, controllers')
              /\ (last'.op \in {"setSeed", "setAlgorithm"} /\ ~Registered(c, controllers))
                     => last'.calls[c] = 0]_vars

\* the registry reg with controller c taken out, the others in their order
Without(reg, c) == SelectSeq(reg, LAMBDA x : x # c)

\* C24: dispose() of controller c, which calls removeController(c), leaves the
\* registry as it was but for c: the same registry when c was not in it.
C24_RemovesOnly ==
    [][last'.op = "dispose" => controllers' = Without(controllers, last'.arg)]_vars

\* controller o holds what its derived operation, which ended as r, returns
CoherentWith(o, r) == ~r.threw /\ o.value = Recomputed(o, r)

\* C23: every registered controller holds the value its derived operation
\* returns under the stored seed and algorithm for the controller's sub-seed
\* and parameters.
C23_Coherence ==
    \A i \in 1..Len(controllers) :
        CoherentWith(ctl[controllers[i]],
                     compute(engine, seed, algorithm, ctl[controllers[i]]))

\* weight = random(k) * total lies in the i-th interval of the running sums,
\* i counted from 0; the sums being integers, it does when its floor fl does
InInterval(weights, fl, i) == SumOf(weights, i) <= fl /\ fl < SumOf(weights, i + 1)

\* C25: for weights none of which is negative and which sum to more than 0, a
\* randomIndex that returns gives the one index i whose interval of the
\* running sums holds random(k) * total; the weight at i is positive.  (The
\* final `return 0` gives an index whose interval does not hold it.)
C25_UniqueIndex ==
    (/\ last.op = "randomIndex"
     /\ ~last.out.threw
     /\ \A j \in 1..Len(last.weights) : last.weights[j] >= 0
     /\ SumOf(last.weights, Len(last.weights)) > 0) =>
        /\ last.out.val \in 0..(Len(last.weights) - 1)
        /\ last.weights[last.out.val + 1] > 0
        /\ \A i \in 0..(Len(last.weights) - 1) :
               InInterval(last.weights,
                          ScaleFloor(Draw(algorithm, seed \o TemplateString(last.k)),
                                     SumOf(last.weights, Len(last.weights))),
                          i) <=> (i = last.out.val)

\* randomIndex has returned 2 for weights [1, 0, 2], past the weight of zero
C25_Witness ==
    /\ last.op = "randomIndex"
    /\ last.weights = <<1, 0, 2>>
    /\ ~last.out.threw
    /\ last.out.val = 2

\* the words h with the word x at position pos
Replaced(h, pos, x) == [h EXCEPT ![pos] = x]

\* two tuples of words that differ at position pos alone give different
\* results under fn
Differ(fn, pos) ==
    \E a \in Words, b \in Words, c \in Words, d \in Words, x \in Words :
        Apply(fn, <<a, b, c, d>>) # Apply(fn, Replaced(<<a, b, c, d>>, pos, x))

\* the words put in place of one of a call's: no bit, the top bit, every bit
Probes == {W(0, 0), W(32768, 0), W(65535, 65535)}

\* the call just made gives the same result whichever of these stands at
\* position pos
Blind(pos) ==
    \A x \in Probes : Apply(last.fn, Replaced(last.words, pos, x)) = last.out

\* C26: the result of splitmix32 depends on the first word alone, and for each
\* of jsf32, mulberry32, sfc32 and xoshiro128** and each of the four positions
\* there are two tuples of words that differ at that position alone and give
\* different results.
C26_ConsumesAll ==
    last.op = "algorithm" =>
        IF last.fn = "splitmix32"
        THEN \A pos \in 2..4 : Blind(pos)
        ELSE \A pos \in 1..4 : Differ(last.fn, pos)

\* the positions of the words that the result of fn is computed from
Reads(fn) ==
    CASE fn = "sfc32" -> {1, 2, 4}
      [] fn = "jsf32" -> {1, 2, 3}
      [] OTHER -> {1}

\* C26, amended: the result of splitmix32, of mulberry32 and of xoshiro128**
\* depends on the first word alone, that of sfc32 on the first, second and
\* fourth, that of jsf32 on the first, second and third: a call gives the same
\* result whatever stands at another position, and another result for some
\* other word at a position it reads.
C26_Reads ==
    last.op = "algorithm" =>
        \A pos \in 1..4 :
            IF pos \in Reads(last.fn) THEN ~Blind(pos) ELSE Blind(pos)

\* jsf32 has returned for a fourth word of all ones what it returns for a
\* fourth word of zero
C26_Witness ==
    /\ last.op = "algorithm"
    /\ last.fn = "jsf32"
    /\ last.words[4] = W(65535, 65535)
    /\ last.out = Apply("jsf32", Replaced(last.words, 4, W(0, 0)))

\* cyrb128 of the stored seed followed by the sub-seed k
Hashed(k) == (CHOOSE x \in Hashes : x[1] = seed \o TemplateString(k))[2]

\* u and v are the selected algorithm's draws from the one word h1 + h2 and
\* from the one word h3 + h4 of the hash h
DrawnFrom(h, u, v) ==
    /\ u = Apply(algorithm, OneWord(Add(h[1], h[2])))
    /\ v = Apply(algorithm, OneWord(Add(h[3], h[4])))

\* C27: randomGaussian(k, mean, spread) ends as random(k) does; when it
\* returns, its two draws come from the one hash of the stored seed followed
\* by k, u from h1 + h2 and v from h3 + h4 under the selected algorithm, both
\* are words of 32 bits, so in [0, 1), and the result is made of them and of
\* mean and spread alone.
C27_Gaussian ==
    last.op = "randomGaussian" =>
        /\ last.out.threw = RandomThrows
        /\ ~last.out.threw =>
               /\ DrawnFrom(Hashed(last.k), last.out.val.u, last.out.val.v)
               /\ IsWord(last.out.val.u) /\ IsWord(last.out.val.v)
               /\ last.out.val.mean = last.mean
               /\ last.out.val.spread = last.spread

\* randomGaussian has returned under sfc32 and a seed that is set, from a hash
\* whose first two words sum past 32 bits, with two different draws
C27_Witness ==
    /\ last.op = "randomGaussian"
    /\ ~last.out.threw
    /\ seed # <<>>
    /\ algorithm = "sfc32"
    /\ Hashed(last.k)[1][1] + Hashed(last.k)[2][1] >= H
    /\ last.out.val.u # last.out.val.v

\* getValueAt(index) of group g has constructed one controller with the
\* sub-seed `${seed}-${index}`, registered it once, kept it at the index and
\* returned its value
CreatedOne(g, index) ==
    /\ Len(ctl') = Len(ctl) + 1
    /\ ctl'[Len(ctl')].seed = childSeed(groups[g], index)
    /\ controllers' = Append(controllers, Len(ctl'))
    /\ childAt(groups'[g], index) = Len(ctl')
    /\ ~last'.out.threw
    /\ last'.out.val = ctl'[Len(ctl')].value

\* getValueAt(index) of group g has constructed and registered nothing and
\* returned the value the controller it keeps at the index holds
CreatedNone(g, index) ==
    /\ ctl' = ctl
    /\ controllers' = controllers
    /\ groups' = groups
    /\ ~last'.out.threw
    /\ last'.out.val = ctl[childAt(groups[g], index)].value

\* C28: a getValueAt(i) that finds no controller kept for i constructs one with
\* the sub-seed `<groupSeed>-<i>`, registers it once and keeps it, so that no
\* later getValueAt(i) constructs another; a getValueAt(i) that finds one adds
\* nothing to the registry and returns that controller's cached value.
C28_OncePerIndex ==
    [][last'.op = "getValueAt" =>
           IF childAt(groups[last'.arg[1]], last'.arg[2]) = 0
           THEN CreatedOne(last'.arg[1], last'.arg[2])
           ELSE CreatedNone(last'.arg[1], last'.arg[2])]_vars

\* controller c is one of those group keeps
Kept(group, c) == \E j \in 1..Len(group.controllers) : group.controllers[j] = c

\* the registry reg without the controllers group keeps
WithoutKept(reg, group) == SelectSeq(reg, LAMBDA c : ~Kept(group, c))

\* C29: dispose() of a group leaves its list of controllers empty and the
\* registry as it was but for the controllers of the list, whether they were
\* still registered or already disposed one by one.
C29_GroupDispose ==
    [][last'.op = "disposeGroup" =>
           /\ groups'[last'.arg].controllers = <<>>
           /\ controllers' = WithoutKept(controllers, groups[last'.arg])]_vars

\* controller o is over an empty list of items
OverNothing(o) == o.kind \in ItemsKinds /\ Len(o.items) = 0

\* C30: the construction of a controller over an empty list of items does not
\* throw and leaves it holding undefined, and a setSeed or setAlgorithm that
\* finds only such controllers registered does not throw either.
C30_EmptyInputs ==
    /\ (last.op = "new" /\ OverNothing(ctl[Len(ctl)])) =>
           ~last.out.threw /\ ctl[Len(ctl)].value = Undefined
    /\ (/\ last.op \in {"setSeed", "setAlgorithm"}
        /\ \A i \in 1..Len(controllers) : OverNothing(ctl[controllers[i]])) =>
           ~last.out.threw

=============================================================================
